---- MODULE Spec2Model ----
(***************************************************************************)
(* Model of main.py: the three click commands download-index,             *)
(* mirror-extensions and print-download-links.                            *)
(*                                                                         *)
(* Python str values are sequences of code points, so that sorted() is    *)
(* the code-point order Python uses.  A dict is a function from its keys, *)
(* a list is a sequence, a JSON object in a file is a sequence of         *)
(* <<key, value>> pairs in text order.                                    *)
(***************************************************************************)
EXTENDS Integers, Sequences, FiniteSets, TLC

VARIABLES
    cmd,             \* the command cli() dispatched to
    pc,              \* "run", "mirror", "done" or "raised"
    error,           \* type of the exception that left the command, or "none"
    index_file,      \* the file behind --index-file
    writes,          \* history: number of json.dump calls on index_file
    stdout,          \* print_download_links: the lines written
    pageNumber,      \* download_index: page requested next
    extension_data,  \* download_index: publisher -> extension -> versions
    attempt_number,  \* Retrying.call: number of the attempt in progress
    log,             \* history: one entry per s.post, with the sleep after it
    index,           \* mirror_extensions: the loaded index
    output_dir,      \* "absent", "present" (it was there before the run)
                     \* or "created" (by this run)
    pos,             \* mirror_extensions: position in the traversal
    fetched          \* history: one entry per wget call, with its exit status

vars == <<cmd, pc, error, index_file, writes, stdout, pageNumber,
          extension_data, attempt_number, log, index, output_dir, pos,
          fetched>>

crawlVars == <<pageNumber, extension_data, attempt_number, log>>
mirrorVars == <<index, output_dir, pos, fetched, stdout>>

----------------------------------------------------------------------------
(* Bounds of the model *)

\* the endpoint serves at most this many non-empty pages
MaxPages == 2
\* the endpoint answers at most this many requests of one crawl with a
\* circuit-breaker error
MaxFailures == 6
\* an index file read by mirror-extensions holds at most this many versions
MaxEntries == 4

----------------------------------------------------------------------------
(* Strings *)

acme == <<97, 99, 109, 101>>
rebornix == <<114, 101, 98, 111, 114, 110, 105, 120>>
foo == <<102, 111, 111>>
Ruby == <<82, 117, 98, 121>>
v1_0_0 == <<49, 46, 48, 46, 48>>
v1_5_0 == <<49, 46, 53, 46, 48>>
v2_0_0 == <<50, 46, 48, 46, 48>>
v0_22_3 == <<48, 46, 50, 50, 46, 51>>

\* Python's str.__lt__: the first differing code point decides, a proper
\* prefix is smaller
StrLess(a, b) ==
    \E i \in 1..(Len(b)) :
        /\ \A j \in 1..(i - 1) : j <= Len(a) /\ a[j] = b[j]
        /\ i - 1 <= Len(a)
        /\ (i > Len(a) \/ a[i] < b[i])

StrMin(S) == CHOOSE a \in S : \A b \in S : a = b \/ StrLess(a, b)

\* sorted(d.items()) of a dict: its keys ascending (keys are unique, so the
\* values never decide)
RECURSIVE sorted_keys(_)
sorted_keys(S) ==
    IF S = {} THEN <<>>
    ELSE LET m == StrMin(S) IN <<m>> \o sorted_keys(S \ {m})

\* list.insert of v into a descending list, after the elements >= v
RECURSIVE InsertDesc(_, _)
InsertDesc(s, v) ==
    IF s = <<>> THEN <<v>>
    ELSE IF StrLess(Head(s), v) THEN <<v>> \o s
    ELSE <<Head(s)>> \o InsertDesc(Tail(s), v)

RECURSIVE InsertAsc(_, _)
InsertAsc(s, v) ==
    IF s = <<>> THEN <<v>>
    ELSE IF StrLess(v, Head(s)) THEN <<v>> \o s
    ELSE <<Head(s)>> \o InsertAsc(Tail(s), v)

RECURSIVE sorted_plain(_)
sorted_plain(versions) ==
    IF versions = <<>> THEN <<>>
    ELSE InsertAsc(sorted_plain(Tail(versions)), Head(versions))

RECURSIVE sorted_reverse_set(_)
sorted_reverse_set(versions) ==
    IF versions = <<>> THEN <<>>
    ELSE LET rest == sorted_reverse_set(Tail(versions))
         IN IF \E i \in DOMAIN rest : rest[i] = Head(versions)
            THEN rest
            ELSE InsertDesc(rest, Head(versions))

\* sorted(versions, reverse=True)
RECURSIVE sorted_reverse(_)
sorted_reverse(versions) ==
    IF versions = <<>> THEN <<>>
    ELSE InsertDesc(sorted_reverse(Tail(versions)), Head(versions))

----------------------------------------------------------------------------
(* The endpoint: what one s.post can come back with *)

CircuitBreaker == "CircuitBreakerExceededExecutionLimitException"

\* r.json() of a response that is not r.ok
ErrorBodies ==
    { [typeKey |-> CircuitBreaker, message |-> "busy"],
      [typeKey |-> "InvalidQueryException", message |-> "bad"],
      [message |-> "no marker"] }

\* exceptions raised inside post_extension_query by s.post or r.json()
TransportErrors == {"ConnectionError", "Timeout"}

Extension(p, e, vs) ==
    [publisher |-> [publisherName |-> p],
     extensionName |-> e,
     versions |-> [i \in 1..Len(vs) |-> [version |-> vs[i]]]]

\* non-empty extension lists the endpoint can serve; any of them can be
\* served on any page, also twice
ExtensionLists ==
    { << Extension(acme, foo, <<v1_0_0, v2_0_0, v1_5_0>>) >>,
      << Extension(rebornix, Ruby, <<v0_22_3>>),
         Extension(acme, foo, <<v2_0_0>>) >>,
      << Extension(acme, Ruby, <<>>),
         Extension(acme, foo, <<v1_5_0>>),
         Extension(acme, foo, <<v1_0_0>>) >> }

\* r.json() of a response that is r.ok
NoResultsBody == [message |-> "nothing"]
EmptyResultsBody == [results |-> <<>>]
ResultsBody(exts) == [results |-> << [extensions |-> exts] >>]

OkBodies ==
    {NoResultsBody, EmptyResultsBody, ResultsBody(<<>>)}
        \cup {ResultsBody(exts) : exts \in ExtensionLists}

----------------------------------------------------------------------------
(* download-index *)

EmptyDict == <<>>

DictAssign(data, p, e, v) ==
    LET pd == IF p \in DOMAIN data THEN data[p] ELSE EmptyDict
        npd == [f \in DOMAIN pd \cup {e} |-> IF f = e THEN <<v>> ELSE pd[f]]
    IN [q \in DOMAIN data \cup {p} |-> IF q = p THEN npd ELSE data[q]]

\* extension_data[p][e].append(v) on the defaultdict of defaultdicts
DictAppend(data, p, e, v) ==
    LET pd == IF p \in DOMAIN data THEN data[p] ELSE EmptyDict
        ed == IF e \in DOMAIN pd THEN pd[e] ELSE <<>>
        npd == [f \in DOMAIN pd \cup {e} |->
                    IF f = e THEN Append(ed, v) ELSE pd[f]]
    IN [q \in DOMAIN data \cup {p} |-> IF q = p THEN npd ELSE data[q]]

\* for version in i["versions"]: ...append(version["version"])
RECURSIVE AppendVersions(_, _, _)
AppendVersions(data, i, versions) ==
    IF versions = <<>> THEN data
    ELSE AppendVersions(
            DictAppend(data, i.publisher.publisherName, i.extensionName,
                       Head(versions).version),
            i, Tail(versions))

\* for i in extensions: ...
RECURSIVE AppendExtensions(_, _)
AppendExtensions(data, extensions) ==
    IF extensions = <<>> THEN data
    ELSE AppendExtensions(
            AppendVersions(data, Head(extensions), Head(extensions).versions),
            Tail(extensions))

\* pageNumber += 1
NextPageSame(p) == p
NextPage(p) == p + 1

\* if "results" not in result_data
HasNoResultsOrNone(result_data) ==
    "results" \notin DOMAIN result_data \/ result_data.results = <<>>
HasNoResults(result_data) == "results" \notin DOMAIN result_data

\* if received_extensions == 0
NoExtensionsNever(n) == FALSE
NoExtensions(n) == n = 0

\* Retrying.call starts every call of post_extension_query at attempt 1
FirstAttemptKept == attempt_number
FirstAttempt == 1

\* retry_on_exception
retry_manager_fn_default(exc) ==
    \/ exc.type # "ExtensionEndpointError"
    \/ /\ "typeKey" \in DOMAIN exc.data
       /\ exc.data.typeKey = CircuitBreaker
retry_manager_fn_typeKey(exc) ==
    exc.type = "ExtensionEndpointError" /\ "typeKey" \in DOMAIN exc.data
retry_manager_fn(exc) ==
    IF exc.type = "ExtensionEndpointError"
    THEN IF "typeKey" \in DOMAIN exc.data
         THEN exc.data.typeKey = CircuitBreaker
         ELSE FALSE
    ELSE FALSE

\* no stop_max_attempt_number, no stop_max_delay: Retrying never stops
stop_after_3(previous_attempt_number) == previous_attempt_number >= 3
stop_after_2(previous_attempt_number) == previous_attempt_number >= 2
stop(previous_attempt_number) == FALSE

\* wait_exponential_multiplier=1000, wait_exponential_max=60000
\* (milliseconds): Retrying.exponential_sleep
exponential_sleep_from_0(previous_attempt_number) ==
    LET result == 1000 * 2 ^ (previous_attempt_number - 1)
    IN IF result > 60000 THEN 60000 ELSE result
exponential_sleep(previous_attempt_number) ==
    LET result == 1000 * 2 ^ previous_attempt_number
    IN IF result > 60000 THEN 60000 ELSE result

json_dump_sorted_lists(data) ==
    LET pubs == sorted_keys(DOMAIN data)
        obj(d) == LET ks == sorted_keys(DOMAIN d)
                  IN [i \in 1..Len(ks) |-> <<ks[i], sorted_plain(d[ks[i]])>>]
    IN [i \in 1..Len(pubs) |-> <<pubs[i], obj(data[pubs[i]])>>]

\* json.dump(extension_data, index_file, sort_keys=True): the keys of every
\* object in ascending order
json_dump(data) ==
    LET pubs == sorted_keys(DOMAIN data)
        obj(d) == LET ks == sorted_keys(DOMAIN d)
                  IN [i \in 1..Len(ks) |-> <<ks[i], d[ks[i]]>>]
    IN [i \in 1..Len(pubs) |-> <<pubs[i], obj(data[pubs[i]])>>]

\* the file behind --index-file: missing, or with a text that is one JSON
\* object ("object"), one JSON array ("array"), or a JSON object cut off
\* before its end ("truncated", not JSON)
NoFile == [exists |-> FALSE, form |-> "missing", text |-> <<>>]
File(text) == [exists |-> TRUE, form |-> "object", text |-> text]
TruncatedFile(text) == [exists |-> TRUE, form |-> "truncated", text |-> text]
ArrayFile == [exists |-> TRUE, form |-> "array", text |-> <<>>]

\* click.File("wt") is lazy: the file is opened by the first write
LazyNot == FALSE
Lazy == TRUE

\* the file after click has processed --index-file of download-index
OpenedForWriting(file) == IF Lazy THEN file ELSE TruncatedFile(<<>>)

LogEntry(resp, wait) == [page |-> pageNumber, resp |-> resp, wait |-> wait]

\* an exception leaves fn inside Retrying.call
Raised(exc, resp) ==
    IF retry_manager_fn(exc)
    THEN IF stop(attempt_number)
         THEN /\ pc' = "raised"
              /\ error' = "RetryError"
              /\ log' = Append(log, LogEntry(resp, 0))
              /\ UNCHANGED attempt_number
         ELSE /\ log' = Append(log, LogEntry(resp,
                                   exponential_sleep(attempt_number)))
              /\ attempt_number' = attempt_number + 1
              /\ UNCHANGED <<pc, error>>
    ELSE /\ pc' = "raised"
         /\ error' = exc.type
         /\ log' = Append(log, LogEntry(resp, 0))
         /\ UNCHANGED attempt_number

\* s.post raises
PostException(type) ==
    /\ cmd = "download-index" /\ pc = "run"
    /\ Raised([type |-> type], [kind |-> "exception", type |-> type])
    /\ UNCHANGED <<cmd, index_file, writes, pageNumber, extension_data,
                   mirrorVars>>

\* s.post returns a response that is not r.ok, with JSON body data
PostNotOk(data) ==
    /\ cmd = "download-index" /\ pc = "run"
    /\ ("typeKey" \in DOMAIN data /\ data.typeKey = CircuitBreaker)
          => Cardinality({i \in DOMAIN log : log[i].wait > 0}) < MaxFailures
    /\ Raised([type |-> "ExtensionEndpointError", data |-> data],
              [kind |-> "http", ok |-> FALSE, json |-> data])
    /\ UNCHANGED <<cmd, index_file, writes, pageNumber, extension_data,
                   mirrorVars>>

\* s.post returns an r.ok response with JSON body result_data:
\* post_extension_query returns it and download_index goes through one
\* iteration of its loop
PostOk(result_data) ==
    /\ cmd = "download-index" /\ pc = "run"
    /\ log' = Append(log, LogEntry([kind |-> "http", ok |-> TRUE,
                                    json |-> result_data], 0))
    /\ IF HasNoResults(result_data)
       THEN /\ pc' = "done"
            /\ index_file' = File(json_dump(extension_data))
            /\ writes' = writes + 1
            /\ UNCHANGED <<error, pageNumber, extension_data, attempt_number>>
       ELSE IF result_data.results = <<>>
       THEN /\ pc' = "raised"
            /\ error' = "IndexError"
            /\ UNCHANGED <<index_file, writes, pageNumber, extension_data,
                           attempt_number>>
       ELSE LET extensions == result_data.results[1].extensions
                received_extensions == Len(extensions)
            IN IF NoExtensions(received_extensions)
               THEN /\ pc' = "done"
                    /\ index_file' = File(json_dump(extension_data))
                    /\ writes' = writes + 1
                    /\ UNCHANGED <<error, pageNumber, extension_data,
                                   attempt_number>>
               ELSE /\ pageNumber <= MaxPages
                    /\ extension_data' =
                           AppendExtensions(extension_data, extensions)
                    /\ pageNumber' = NextPage(pageNumber)
                    /\ attempt_number' = FirstAttempt
                    /\ UNCHANGED <<pc, error, index_file, writes>>
    /\ UNCHANGED <<cmd, mirrorVars>>

----------------------------------------------------------------------------
(* The index file read by mirror-extensions *)

v10_0_0 == <<49, 48, 46, 48, 46, 48>>

\* the pairs of one JSON object become a dict; of a repeated key the last
\* value stays
LastIndex(pairs, k) ==
    CHOOSE i \in DOMAIN pairs :
        /\ pairs[i][1] = k
        /\ \A j \in DOMAIN pairs : pairs[j][1] = k => j <= i
json_object(pairs) ==
    [k \in {pairs[i][1] : i \in DOMAIN pairs} |->
        pairs[LastIndex(pairs, k)][2]]

\* index = json.load(index_file)
json_load(text) ==
    LET top == json_object(text)
    IN [p \in DOMAIN top |-> json_object(top[p])]

VersionLists ==
    { <<>>,
      <<v1_0_0, v2_0_0, v1_5_0>>,
      <<v1_5_0, v1_5_0>>,
      <<v2_0_0, v10_0_0>> }

PartialFunctions(K, V) == UNION {[D -> V] : D \in SUBSET K}

RECURSIVE SumLen(_, _)
SumLen(d, keys) ==
    IF keys = {} THEN 0
    ELSE LET k == CHOOSE x \in keys : TRUE
         IN Len(d[k]) + SumLen(d, keys \ {k})

RECURSIVE Entries(_, _)
Entries(ix, pubs) ==
    IF pubs = {} THEN 0
    ELSE LET p == CHOOSE x \in pubs : TRUE
         IN SumLen(ix[p], DOMAIN ix[p]) + Entries(ix, pubs \ {p})

\* every index over two publishers and two extension names
Indexes ==
    { ix \in PartialFunctions({acme, rebornix},
                              PartialFunctions({foo, Ruby}, VersionLists)) :
        Entries(ix, DOMAIN ix) <= MaxEntries }

Reverse(s) == [i \in 1..Len(s) |-> s[Len(s) + 1 - i]]

\* index files: written by download-index (keys ascending), the same with
\* the publishers in the opposite order, and one with a repeated key
IndexTexts ==
    {json_dump(ix) : ix \in Indexes}
        \cup {Reverse(json_dump(ix)) : ix \in Indexes}
        \cup { << <<acme, << <<foo, <<v1_0_0>> >> >> >>,
                  <<acme, << <<foo, <<v2_0_0, v1_5_0>> >>,
                             <<foo, <<v1_5_0, v2_0_0>> >> >> >> >>,
               << <<rebornix, << <<Ruby, <<v0_22_3>> >> >> >> >> }

\* what --index-file of the two reading commands can name
IndexFiles ==
    {File(t) : t \in IndexTexts}
        \cup { NoFile, ArrayFile,
               TruncatedFile(<< <<acme, << <<foo, <<v1_0_0>> >> >> >> >>) }

----------------------------------------------------------------------------
(* get_vspackage_path *)

UrlPublishers ==
    <<104, 116, 116, 112, 115, 58, 47, 47, 109, 97, 114, 107, 101, 116, 112,
    108, 97, 99, 101, 46, 118, 105, 115, 117, 97, 108, 115, 116, 117, 100,
    105, 111, 46, 99, 111, 109, 47, 95, 97, 112, 105, 115, 47, 112, 117, 98,
    108, 105, 99, 47, 103, 97, 108, 108, 101, 114, 121, 47, 112, 117, 98,
    108, 105, 115, 104, 101, 114, 115, 47>>
UrlExtensions ==
    <<47, 118, 115, 101, 120, 116, 101, 110, 115, 105, 111, 110, 115, 47>>
UrlSlash ==
    <<47>>
UrlPackage ==
    <<47, 118, 115, 112, 97, 99, 107, 97, 103, 101>>

\* the template with publisherName, name and version filled in
get_vspackage_path_swapped(publisher_name, extension_name, version) ==
    UrlPublishers \o publisher_name \o UrlExtensions \o version
        \o UrlSlash \o extension_name \o UrlPackage
get_vspackage_path(publisher_name, extension_name, version) ==
    UrlPublishers \o publisher_name \o UrlExtensions \o extension_name
        \o UrlSlash \o version \o UrlPackage

----------------------------------------------------------------------------
(* mirror-extensions *)

Target(p, e, v) == [publisher_name |-> p, extension_name |-> e, version |-> v]

\* for version in sorted(versions, reverse=True)
ExtensionTargets(p, e, versions) ==
    LET vs == sorted_reverse(versions)
    IN [i \in 1..Len(vs) |-> Target(p, e, vs[i])]

\* for extension_name, versions in sorted(extension_dict.items())
RECURSIVE PublisherTargets(_, _, _)
PublisherTargets(p, extension_dict, names) ==
    IF names = <<>> THEN <<>>
    ELSE ExtensionTargets(p, Head(names), extension_dict[Head(names)])
            \o PublisherTargets(p, extension_dict, Tail(names))

\* for publisher_name, extension_dict in sorted(index.items())
RECURSIVE IndexTargets(_, _)
IndexTargets(ix, names) ==
    IF names = <<>> THEN <<>>
    ELSE PublisherTargets(Head(names), ix[Head(names)],
                          sorted_keys(DOMAIN ix[Head(names)]))
            \o IndexTargets(ix, Tail(names))

\* the downloads of the three nested loops, in order
Targets(ix) == IndexTargets(ix, sorted_keys(DOMAIN ix))

\* except subprocess.CalledProcessError
CaughtNothing(exc) == FALSE
Caught(exc) == exc = "CalledProcessError"

\* exit statuses of wget
ReturnCodes == {0, 8}

\* json.load raises JSONDecodeError on a text that is not JSON
ParsesAll(file) == file.exists
Parses(file) == file.form \in {"object", "array"}

\* os.makedirs(output_dir, exist_ok=True)
exist_ok_default == FALSE
exist_ok == TRUE

\* click.File("rt") opens the file before the command is called; then
\* json.load, os.makedirs(output_dir, exist_ok=True), and the loops up to
\* the first wget
MirrorLoad ==
    /\ cmd = "mirror-extensions" /\ pc = "run"
    /\ IF ~index_file.exists
       THEN /\ pc' = "raised"
            /\ error' = "BadParameter"
            /\ UNCHANGED <<index, output_dir>>
       ELSE IF ~Parses(index_file)
       THEN /\ pc' = "raised"
            /\ error' = "JSONDecodeError"
            /\ UNCHANGED <<index, output_dir>>
       ELSE IF output_dir # "absent" /\ ~exist_ok
       THEN /\ pc' = "raised"
            /\ error' = "FileExistsError"
            /\ index' = json_load(index_file.text)
            /\ UNCHANGED output_dir
       ELSE /\ output_dir' = IF output_dir = "absent" THEN "created"
                                                      ELSE output_dir
            /\ IF index_file.form = "array"
               THEN /\ pc' = "raised"
                    /\ error' = "AttributeError"
                    /\ UNCHANGED index
               ELSE /\ index' = json_load(index_file.text)
                    /\ pc' = IF Targets(index') = <<>> THEN "done"
                                                       ELSE "mirror"
                    /\ UNCHANGED error
    /\ pos' = 1
    /\ UNCHANGED <<cmd, index_file, writes, stdout, crawlVars, fetched>>

\* one subprocess.check_call(["wget", ...], cwd=output_dir) and what
\* follows it up to the next one
Wget(returncode) ==
    /\ cmd = "mirror-extensions" /\ pc = "mirror"
    /\ fetched' =
          LET t == Targets(index)[pos]
          IN Append(fetched,
                    [target |-> t,
                     download_path |->
                        get_vspackage_path(t.publisher_name,
                                           t.extension_name, t.version),
                     cwd |-> output_dir,
                     returncode |-> returncode])
    /\ IF returncode # 0 /\ ~Caught("CalledProcessError")
       THEN /\ pc' = "raised"
            /\ error' = "CalledProcessError"
            /\ UNCHANGED pos
       ELSE /\ pos' = pos + 1
            /\ pc' = IF pos' > Len(Targets(index)) THEN "done" ELSE "mirror"
            /\ UNCHANGED error
    /\ UNCHANGED <<cmd, index_file, writes, stdout, index, output_dir,
                   crawlVars>>

----------------------------------------------------------------------------
(* print-download-links *)

\* the keys of a dict made from the pairs of a JSON object, in the order
\* dict.items() goes through them: that of their first occurrence
RECURSIVE dict_keys(_)
dict_keys(pairs) ==
    IF pairs = <<>> THEN <<>>
    ELSE LET front == SubSeq(pairs, 1, Len(pairs) - 1)
             k == pairs[Len(pairs)][1]
         IN IF \E i \in DOMAIN front : front[i][1] = k
            THEN dict_keys(front)
            ELSE Append(dict_keys(front), k)

\* for version in versions: sys.stdout.write(download_path + "\n")
VersionLinesFirst(p, e, versions) ==
    IF versions = <<>> THEN <<>>
    ELSE <<get_vspackage_path(p, e, versions[1])>>
VersionLines(p, e, versions) ==
    [i \in 1..Len(versions) |-> get_vspackage_path(p, e, versions[i])]

\* for extension_name, versions in extension_dict.items()
RECURSIVE ExtensionLines(_, _, _)
ExtensionLines(p, extension_dict, names) ==
    IF names = <<>> THEN <<>>
    ELSE VersionLines(p, Head(names), extension_dict[Head(names)])
            \o ExtensionLines(p, extension_dict, Tail(names))

\* for publisher_name, extension_dict in index.items()
RECURSIVE PublisherLines(_, _)
PublisherLines(text, names) ==
    IF names = <<>> THEN <<>>
    ELSE LET pairs == json_object(text)[Head(names)]
         IN ExtensionLines(Head(names), json_object(pairs), dict_keys(pairs))
                \o PublisherLines(text, Tail(names))

\* the lines print_download_links writes for the index in a JSON text
Lines(text) == PublisherLines(text, dict_keys(text))

\* the whole command: click.File("rt") opens the file, json.load, the loops
PrintDownloadLinks ==
    /\ cmd = "print-download-links" /\ pc = "run"
    /\ IF ~index_file.exists
       THEN /\ pc' = "raised"
            /\ error' = "BadParameter"
            /\ UNCHANGED <<index, stdout>>
       ELSE IF ~Parses(index_file)
       THEN /\ pc' = "raised"
            /\ error' = "JSONDecodeError"
            /\ UNCHANGED <<index, stdout>>
       ELSE IF index_file.form = "array"
       THEN /\ pc' = "raised"
            /\ error' = "AttributeError"
            /\ UNCHANGED <<index, stdout>>
       ELSE /\ index' = json_load(index_file.text)
            /\ stdout' = Lines(index_file.text)
            /\ pc' = "done"
            /\ UNCHANGED error
    /\ UNCHANGED <<cmd, index_file, writes, output_dir, pos, fetched,
                   crawlVars>>

----------------------------------------------------------------------------
(* The program *)

Commands == {"download-index", "mirror-extensions", "print-download-links"}

Init ==
    /\ cmd \in Commands
    /\ pc = "run"
    /\ error = "none"
    /\ IF cmd = "download-index"
       THEN index_file = OpenedForWriting(NoFile)
       ELSE index_file \in IndexFiles
    /\ writes = 0
    /\ stdout = <<>>
    /\ pageNumber = 1
    /\ extension_data = EmptyDict
    /\ attempt_number = 1
    /\ log = <<>>
    /\ index = EmptyDict
    /\ output_dir \in IF cmd = "mirror-extensions"
                      THEN {"absent", "present"} ELSE {"absent"}
    /\ pos = 1
    /\ fetched = <<>>

Next ==
    \/ \E type \in TransportErrors : PostException(type)
    \/ \E data \in ErrorBodies : PostNotOk(data)
    \/ \E result_data \in OkBodies : PostOk(result_data)
    \/ MirrorLoad
    \/ \E returncode \in ReturnCodes : Wget(returncode)
    \/ PrintDownloadLinks

Spec == Init /\ [][Next]_vars

\* download-index alone
CrawlInit == Init /\ cmd = "download-index"

CrawlNext ==
    \/ \E type \in TransportErrors : PostException(type)
    \/ \E data \in ErrorBodies : PostNotOk(data)
    \/ \E result_data \in OkBodies : PostOk(result_data)

\* every call download-index makes returns: while it can take a step it
\* takes one
FairSpec == CrawlInit /\ [][CrawlNext]_vars /\ WF_vars(CrawlNext)

----------------------------------------------------------------------------
(* Reading the history of a crawl *)

Min(a, b) == IF a <= b THEN a ELSE b

IsOk(e) == e.resp.kind = "http" /\ e.resp.ok

\* an r.ok page with a first result group that holds extensions
IsNonEmptyPage(e) ==
    /\ IsOk(e)
    /\ "results" \in DOMAIN e.resp.json
    /\ e.resp.json.results # <<>>
    /\ e.resp.json.results[1].extensions # <<>>

\* an r.ok page without results field or with an empty extension list
IsEndOfData(e) ==
    /\ IsOk(e)
    /\ \/ "results" \notin DOMAIN e.resp.json
       \/ /\ e.resp.json.results # <<>>
          /\ e.resp.json.results[1].extensions = <<>>

IsTransportFailure(e) == e.resp.kind = "exception"

IsErrorResponse(e) == e.resp.kind = "http" /\ ~e.resp.ok

IsCircuitBreaker(e) ==
    /\ IsErrorResponse(e)
    /\ "typeKey" \in DOMAIN e.resp.json
    /\ e.resp.json.typeKey = CircuitBreaker

IsOtherError(e) == IsErrorResponse(e) /\ ~IsCircuitBreaker(e)

\* number of non-empty pages among the first n requests
Succeeded(n) == Cardinality({j \in 1..n : IsNonEmptyPage(log[j])})

\* request i is the k-th request in a row for its page
AttemptOf(i) == Cardinality({j \in 1..i : log[j].page = log[i].page})

\* the records of the non-empty pages among the first n requests, appended
\* in the order of the requests
RECURSIVE DataOfPages(_)
DataOfPages(n) ==
    IF n = 0 THEN EmptyDict
    ELSE IF IsNonEmptyPage(log[n])
         THEN AppendExtensions(DataOfPages(n - 1),
                               log[n].resp.json.results[1].extensions)
         ELSE DataOfPages(n - 1)

Crawling == cmd = "download-index" /\ pc = "run"

----------------------------------------------------------------------------
(* C1: the first request is for page 1, and every request, as well as the
   request the crawl is about to make, is for page 1 + the number of pages
   that came back r.ok with a non-empty extension list before it: a
   non-empty page advances the page number by one, a retry asks for the
   same page. *)
C1_PageNumbers ==
    /\ \A i \in DOMAIN log : log[i].page = 1 + Succeeded(i - 1)
    /\ Crawling => pageNumber = 1 + Succeeded(Len(log))

\* page 1 is retried and then succeeds, page 2 is retried
C1_Witness ==
    /\ Len(log) >= 4
    /\ IsCircuitBreaker(log[1])
    /\ log[2].page = 1 /\ IsNonEmptyPage(log[2])
    /\ log[3].page = 2 /\ IsCircuitBreaker(log[3])
    /\ log[4].page = 2

(* C2: the crawl stops at the first r.ok page that lacks a results field or
   has an empty extension list in its first result group: that request is
   the last one, no request is for a later page, and the index, in memory
   and in the file, holds the data of the pages before it and nothing
   else.  Without failures, an empty extension list on the second page
   makes two requests and an index of the first page's data. *)
C2_StopsAtEndOfData ==
    /\ \A i \in DOMAIN log :
          IsEndOfData(log[i]) =>
             /\ i = Len(log)
             /\ pc = "done"
             /\ \A j \in DOMAIN log : log[j].page <= log[i].page
             /\ extension_data = DataOfPages(i - 1)
             /\ index_file = File(json_dump(DataOfPages(i - 1)))
    /\ ( /\ Len(log) >= 2
         /\ IsNonEmptyPage(log[1])
         /\ log[2].resp = [kind |-> "http", ok |-> TRUE,
                           json |-> ResultsBody(<<>>)] )
          => /\ Len(log) = 2
             /\ log[1].page = 1 /\ log[2].page = 2
             /\ pc = "done"
             /\ extension_data =
                   AppendExtensions(EmptyDict,
                                    log[1].resp.json.results[1].extensions)

\* the first page has data, the second has an empty extension list
C2_Witness ==
    /\ pc = "done"
    /\ Len(log) = 2
    /\ IsNonEmptyPage(log[1])
    /\ log[2].resp.json = ResultsBody(<<>>)
    /\ extension_data # EmptyDict

(* C3: a response that is not r.ok and carries the circuit-breaker typeKey
   is always retried: after any number of them in a row the next request
   is for the same page, and while it is the last request the crawl is
   still running on that page, with no error and no index written. *)
C3_CircuitBreakerRetried ==
    \A i \in DOMAIN log :
        IsCircuitBreaker(log[i]) =>
            IF i < Len(log)
            THEN log[i + 1].page = log[i].page
            ELSE /\ Crawling
                 /\ error = "none"
                 /\ pageNumber = log[i].page
                 /\ attempt_number = AttemptOf(i) + 1
                 /\ index_file = NoFile

\* MaxFailures circuit-breaker failures in a row on page 2, then another
\* request for page 2
C3_Witness ==
    \E i \in DOMAIN log :
        /\ log[i].page = 2
        /\ i + MaxFailures <= Len(log)
        /\ \A j \in i..(i + MaxFailures - 1) : IsCircuitBreaker(log[j])
        /\ log[i + MaxFailures].page = 2

(* C4 as claimed: after a transport-level failure the request for the same
   page is issued again. *)
C4_TransportFailureRetried ==
    \A i \in DOMAIN log :
        IsTransportFailure(log[i]) =>
            IF i < Len(log)
            THEN log[i + 1].page = log[i].page
            ELSE Crawling /\ pageNumber = log[i].page

(* C4, amended: a transport-level failure is not retried: it is the last
   request of the crawl, no sleep follows it, the exception leaves the
   command and no index is written. *)
C4_TransportFailureEndsCrawl ==
    \A i \in DOMAIN log :
        IsTransportFailure(log[i]) =>
            /\ i = Len(log)
            /\ log[i].wait = 0
            /\ pc = "raised"
            /\ error = log[i].resp.type
            /\ index_file = NoFile

\* a connection error on page 2
C4_Witness ==
    /\ pc = "raised"
    /\ Len(log) >= 2
    /\ log[Len(log)].page = 2
    /\ IsTransportFailure(log[Len(log)])

(* C5: a response that is not r.ok whose body lacks the circuit-breaker
   typeKey (another typeKey, or none) is not retried: it is the last
   request of the crawl, no sleep follows it, the ExtensionEndpointError
   leaves the command and no index is written. *)
C5_OtherErrorEndsCrawl ==
    \A i \in DOMAIN log :
        IsOtherError(log[i]) =>
            /\ i = Len(log)
            /\ log[i].wait = 0
            /\ pc = "raised"
            /\ error = "ExtensionEndpointError"
            /\ index_file = NoFile

\* page 2 answers with another typeKey after a circuit-breaker failure
C5_Witness ==
    /\ pc = "raised"
    /\ Len(log) >= 3
    /\ log[Len(log)].page = 2
    /\ IsCircuitBreaker(log[Len(log) - 1])
    /\ IsOtherError(log[Len(log)])
    /\ "typeKey" \in DOMAIN log[Len(log)].resp.json

(* C6 as claimed: the sleep before the k-th retry in a row of a page is
   min(2^(k-1), 60) seconds. *)
C6_BackoffFromOne ==
    \A i \in DOMAIN log :
        IsCircuitBreaker(log[i]) =>
            log[i].wait = 1000 * Min(2 ^ (AttemptOf(i) - 1), 60)

(* C6, amended: the sleep before the k-th retry in a row of a page is
   min(2^k, 60) seconds (2, 4, 8 for the first three); it never decreases
   while the failures go on and never exceeds 60 seconds. *)
C6_Backoff ==
    \A i \in DOMAIN log :
        IsCircuitBreaker(log[i]) =>
            /\ log[i].wait = 1000 * Min(2 ^ AttemptOf(i), 60)
            /\ log[i].wait <= 60000
            /\ (i > 1 /\ log[i - 1].page = log[i].page)
                  => log[i - 1].wait <= log[i].wait

\* six failures in a row: 2, 4, 8, 16, 32 and then the cap of 60 seconds
C6_Witness ==
    /\ Len(log) >= 6
    /\ \A i \in 1..6 : IsCircuitBreaker(log[i])
    /\ log[1].wait = 2000 /\ log[2].wait = 4000 /\ log[3].wait = 8000
    /\ log[6].wait = 60000

(* C7: the backoff starts over with every page: the first retried failure
   of a page sleeps the smallest interval of the whole crawl, the same for
   every page, however many failures the pages before it had; and a page
   that was not requested yet is at attempt 1. *)
C7_BackoffPerPage ==
    /\ \A i \in DOMAIN log :
          (IsCircuitBreaker(log[i]) /\ AttemptOf(i) = 1) =>
              \A j \in DOMAIN log :
                  IsCircuitBreaker(log[j]) =>
                      /\ log[i].wait <= log[j].wait
                      /\ AttemptOf(j) = 1 => log[j].wait = log[i].wait
    /\ (Crawling /\ \A j \in DOMAIN log : log[j].page # pageNumber)
          => attempt_number = 1

\* three failures on page 1, then its data, then a failure on page 2
C7_Witness ==
    /\ Len(log) >= 5
    /\ \A i \in 1..3 : IsCircuitBreaker(log[i])
    /\ IsNonEmptyPage(log[4])
    /\ log[5].page = 2 /\ IsCircuitBreaker(log[5])

----------------------------------------------------------------------------
(* Reading the history of a mirror run *)

Mirroring == cmd = "mirror-extensions"

SameExtension(a, b) ==
    a.publisher_name = b.publisher_name /\ a.extension_name = b.extension_name

\* how often version v stands in the version list of (p, e) in the index
Occurrences(p, e, v) ==
    IF p \in DOMAIN index /\ e \in DOMAIN index[p]
    THEN Cardinality({k \in DOMAIN index[p][e] : index[p][e][k] = v})
    ELSE 0

\* how often wget was called for the target t
Fetches(t) == Cardinality({i \in DOMAIN fetched : fetched[i].target = t})

\* the triples of the index
IndexTriples ==
    UNION { UNION { {Target(p, e, index[p][e][k]) : k \in DOMAIN index[p][e]}
                    : e \in DOMAIN index[p] }
            : p \in DOMAIN index }

(* C8: the downloads follow the index content alone: from one download to
   the next the publisher grows, or it stays and the extension grows, or
   both stay and the version does not grow (code-point order of the
   strings); the downloads of one (publisher, extension) are contiguous;
   and the versions 1.0.0, 2.0.0, 1.5.0 of acme/foo are fetched as
   2.0.0, 1.5.0, 1.0.0. *)
C8_TraversalOrder ==
    /\ \A i \in 1..(Len(fetched) - 1) :
          LET a == fetched[i].target
              b == fetched[i + 1].target
          IN \/ StrLess(a.publisher_name, b.publisher_name)
             \/ /\ a.publisher_name = b.publisher_name
                /\ StrLess(a.extension_name, b.extension_name)
             \/ /\ SameExtension(a, b)
                /\ ~StrLess(a.version, b.version)
    /\ \A i, k \in DOMAIN fetched :
          (i < k /\ SameExtension(fetched[i].target, fetched[k].target))
             => \A j \in i..k :
                   SameExtension(fetched[i].target, fetched[j].target)
    /\ ( /\ Mirroring /\ pc = "done"
         /\ DOMAIN index = {acme} /\ DOMAIN index[acme] = {foo}
         /\ index[acme][foo] = <<v1_0_0, v2_0_0, v1_5_0>> )
          => [i \in DOMAIN fetched |-> fetched[i].target.version]
                = <<v2_0_0, v1_5_0, v1_0_0>>

\* a file that names rebornix before acme, with two
\* versions in ascending order for each: all four fetched
C8_Witness ==
    /\ Mirroring /\ pc = "done"
    /\ Len(fetched) = 4
    /\ index_file.text[1][1] = rebornix
    /\ fetched[1].target = Target(acme, Ruby, v2_0_0)
    /\ fetched[2].target = Target(acme, Ruby, v10_0_0)
    /\ fetched[3].target.publisher_name = rebornix
    /\ \E i \in DOMAIN fetched : fetched[i].returncode # 0

(* C9: a wget that exits non-zero never ends the run: once a download was
   made no exception leaves mirror-extensions, the target after a failed
   one is the next to be fetched, and when the run is done every entry of
   the index has been attempted. *)
C9_FailureIsolation ==
    Mirroring =>
        /\ fetched # <<>> => pc # "raised" /\ error = "none"
        /\ \A i \in DOMAIN fetched :
              fetched[i].returncode # 0 =>
                 \/ i < Len(fetched)
                 \/ pc = "done" /\ i = Entries(index, DOMAIN index)
                 \/ pc = "mirror" /\ pos = i + 1
        /\ pc = "done" => Len(fetched) = Entries(index, DOMAIN index)

\* download 2 of 3 fails, downloads 1 and 3 are made and the run is done
C9_Witness ==
    /\ Mirroring /\ pc = "done"
    /\ Len(fetched) = 3
    /\ fetched[1].returncode = 0
    /\ fetched[2].returncode # 0
    /\ fetched[3].returncode = 0

(* C10 as claimed: when the run is done every (publisher, extension,
   version) triple of the index has been fetched exactly once. *)
C10_EachTripleOnce ==
    (Mirroring /\ pc = "done") => \A t \in IndexTriples : Fetches(t) = 1

(* C10, amended: every entry of every version list is fetched exactly once,
   whether wget succeeds or fails: a triple is never fetched more often
   than its version stands in the version list of its extension, and when
   the run is done it has been fetched exactly that often (once when the
   list has no duplicates). *)
C10_EachEntryOnce ==
    Mirroring =>
        /\ \A i \in DOMAIN fetched :
              LET t == fetched[i].target
              IN /\ t \in IndexTriples
                 /\ Fetches(t) <= Occurrences(t.publisher_name,
                                              t.extension_name, t.version)
        /\ pc = "done" =>
              \A t \in IndexTriples :
                  Fetches(t) = Occurrences(t.publisher_name,
                                           t.extension_name, t.version)
        /\ pc = "done" =>
              \A t \in IndexTriples :
                  Occurrences(t.publisher_name, t.extension_name,
                              t.version) = 1 => Fetches(t) = 1

\* the list ["1.5.0", "1.5.0"]: two fetches of the one triple, the first
\* of them failed
C10_Witness ==
    /\ Mirroring /\ pc = "done"
    /\ Len(fetched) = 4
    /\ fetched[1].target = fetched[2].target
    /\ fetched[1].returncode # 0
    /\ fetched[3].target # fetched[4].target

----------------------------------------------------------------------------
(* Reading an index file *)

Printing == cmd = "print-download-links"

Reading == Mirroring \/ Printing

(* C11 as claimed: with an index file that is missing or is not an index,
   mirror-extensions and print-download-links fail without any work done:
   no download, no line printed, no output directory created. *)
C11_NoWorkWithoutIndex ==
    (Reading /\ index_file.form # "object") =>
        /\ pc \in {"run", "raised"}
        /\ fetched = <<>>
        /\ stdout = <<>>
        /\ output_dir # "created"

(* C11, amended: with an index file that is missing or is not JSON the two
   commands fail before any work: BadParameter or JSONDecodeError leaves
   the command, nothing is loaded, fetched or printed and the output
   directory is not created.  With a file that is JSON but no index (a
   top-level array) they fail as well, without a download or a printed
   line, but mirror-extensions has created the output directory first. *)
C11_FailsOnBadIndexFile ==
    /\ (Reading /\ index_file.form \in {"missing", "truncated"}) =>
          /\ pc \in {"run", "raised"}
          /\ pc = "raised" =>
                error = IF index_file.exists THEN "JSONDecodeError"
                                             ELSE "BadParameter"
          /\ index = EmptyDict
          /\ fetched = <<>>
          /\ stdout = <<>>
          /\ output_dir # "created"
    /\ (Reading /\ index_file.form = "array") =>
          /\ pc \in {"run", "raised"}
          /\ pc = "raised" => error = "AttributeError"
          /\ fetched = <<>>
          /\ stdout = <<>>
          /\ (Mirroring /\ pc = "raised") => output_dir # "absent"
          /\ Printing => output_dir = "absent"

\* mirror-extensions has failed on a file that is cut off, and there is
\* still no output directory
C11_Witness ==
    /\ Mirroring /\ pc = "raised"
    /\ index_file.form = "truncated"
    /\ error = "JSONDecodeError"
    /\ output_dir = "absent"

(* C12: reading back what json.dump wrote gives the index that was written:
   after download-index the index read from the file has the publishers,
   the extensions of each publisher and the version list of each extension
   of extension_data; and every index a command has loaded is the one that
   comes back when it is written and read again. *)
C12_RoundTrip ==
    /\ (cmd = "download-index" /\ pc = "done") =>
          /\ index_file.form = "object"
          /\ LET x == json_load(index_file.text)
             IN /\ DOMAIN x = DOMAIN extension_data
                /\ \A p \in DOMAIN x :
                      /\ DOMAIN x[p] = DOMAIN extension_data[p]
                      /\ \A e \in DOMAIN x[p] :
                            x[p][e] = extension_data[p][e]
    /\ (Reading /\ pc \in {"mirror", "done"}) =>
          json_load(json_dump(index)) = index

\* a crawl has written two publishers, one of them with a version list
\* that is not in order
C12_Witness ==
    /\ cmd = "download-index" /\ pc = "done"
    /\ DOMAIN extension_data = {acme, rebornix}
    /\ extension_data[acme][foo] = <<v1_0_0, v2_0_0, v1_5_0, v2_0_0>>

(* C13: in the index a crawl has written, no version string stands twice in
   the version list of one (publisher, extension), whatever pages the
   endpoint served. *)
C13_VersionsUnique ==
    (cmd = "download-index" /\ pc = "done") =>
        LET x == json_load(index_file.text)
        IN \A p \in DOMAIN x : \A e \in DOMAIN x[p] :
              \A i, j \in DOMAIN x[p][e] :
                  x[p][e][i] = x[p][e][j] => i = j

(* C14: the URL handed to wget, and the line printed, is the template with
   publisher, extension and version put in, in that order: for rebornix,
   Ruby, 0.22.3 it is
   https://marketplace.visualstudio.com/_apis/public/gallery/publishers/rebornix/vsextensions/Ruby/0.22.3/vspackage
   and one triple always gives one URL. *)
RubyUrl ==
    <<104, 116, 116, 112, 115, 58, 47, 47, 109, 97, 114, 107, 101, 116, 112,
    108, 97, 99, 101, 46, 118, 105, 115, 117, 97, 108, 115, 116, 117, 100,
    105, 111, 46, 99, 111, 109, 47, 95, 97, 112, 105, 115, 47, 112, 117, 98,
    108, 105, 99, 47, 103, 97, 108, 108, 101, 114, 121, 47, 112, 117, 98,
    108, 105, 115, 104, 101, 114, 115, 47, 114, 101, 98, 111, 114, 110, 105,
    120, 47, 118, 115, 101, 120, 116, 101, 110, 115, 105, 111, 110, 115, 47,
    82, 117, 98, 121, 47, 48, 46, 50, 50, 46, 51, 47, 118, 115, 112, 97, 99,
    107, 97, 103, 101>>

\* u is the fixed text of the template around p, e and v, in that order
FillsTemplate(u, p, e, v) ==
    LET a == Len(UrlPublishers)
        b == a + Len(p)
        c == b + Len(UrlExtensions)
        d == c + Len(e)
        f == d + 1
        g == f + Len(v)
    IN /\ Len(u) = g + Len(UrlPackage)
       /\ SubSeq(u, 1, a) = UrlPublishers
       /\ SubSeq(u, a + 1, b) = p
       /\ SubSeq(u, b + 1, c) = UrlExtensions
       /\ SubSeq(u, c + 1, d) = e
       /\ u[f] = 47
       /\ SubSeq(u, f + 1, g) = v
       /\ SubSeq(u, g + 1, Len(u)) = UrlPackage

C14_PackageUrl ==
    /\ \A i \in DOMAIN fetched :
          LET t == fetched[i].target
              u == fetched[i].download_path
          IN /\ FillsTemplate(u, t.publisher_name, t.extension_name,
                              t.version)
             /\ t = Target(rebornix, Ruby, v0_22_3) => u = RubyUrl
             /\ \A j \in DOMAIN fetched :
                   fetched[j].target = t => fetched[j].download_path = u
    /\ ( /\ Printing /\ pc = "done"
         /\ DOMAIN index = {rebornix} /\ DOMAIN index[rebornix] = {Ruby}
         /\ index[rebornix][Ruby] = <<v0_22_3>> )
          => stdout = <<RubyUrl>>

\* wget was called for version 0.22.3 of rebornix/Ruby
C14_Witness ==
    /\ Mirroring /\ pc = "done"
    /\ Len(fetched) = 1
    /\ fetched[1].target = Target(rebornix, Ruby, v0_22_3)
    /\ fetched[1].download_path = RubyUrl

(* C15: mirror-extensions has the output directory before its first
   download: os.makedirs does not fail on a directory that is already
   there, the directory exists whenever the loops run, and every wget ran
   with it as working directory. *)
C15_OutputDirectory ==
    Mirroring =>
        /\ error # "FileExistsError"
        /\ pc \in {"mirror", "done"} => output_dir \in {"present", "created"}
        /\ \A i \in DOMAIN fetched :
              /\ fetched[i].cwd # "absent"
              /\ fetched[i].cwd = output_dir

\* the directory was there before the run, and two downloads were made
\* in it
C15_Witness ==
    /\ Mirroring /\ pc = "done"
    /\ output_dir = "present"
    /\ Len(fetched) >= 2
    /\ \A i \in DOMAIN fetched : fetched[i].cwd = "present"

(* C16: the index of a crawl starts empty and only grows at its ends: the
   version list of every (publisher, extension) is the versions of the
   records with that key on the non-empty pages received so far, in the
   order of the pages and of the records on a page, and a key without
   such a version is absent; failed requests add nothing, a page that
   was retried adds its data once, and no step removes or reorders what
   a list holds. *)
VersionsOf(record) ==
    [k \in 1..Len(record.versions) |-> record.versions[k].version]

RECURSIVE VersionsOnPage(_, _, _)
VersionsOnPage(extensions, p, e) ==
    IF extensions = <<>> THEN <<>>
    ELSE LET r == extensions[Len(extensions)]
             front == SubSeq(extensions, 1, Len(extensions) - 1)
         IN VersionsOnPage(front, p, e)
                \o (IF r.publisher.publisherName = p /\ r.extensionName = e
                    THEN VersionsOf(r) ELSE <<>>)

RECURSIVE Consumed(_, _, _)
Consumed(n, p, e) ==
    IF n = 0 THEN <<>>
    ELSE Consumed(n - 1, p, e)
            \o (IF IsNonEmptyPage(log[n])
                THEN VersionsOnPage(log[n].resp.json.results[1].extensions,
                                    p, e)
                ELSE <<>>)

IsPrefix(s, t) == Len(s) <= Len(t) /\ SubSeq(t, 1, Len(s)) = s

IndexIsConsumed ==
    /\ log = <<>> => extension_data = EmptyDict
    /\ DOMAIN extension_data \subseteq {acme, rebornix}
    /\ \A p \in DOMAIN extension_data :
          DOMAIN extension_data[p] \subseteq {foo, Ruby}
    /\ \A p \in {acme, rebornix}, e \in {foo, Ruby} :
          LET c == Consumed(Len(log), p, e)
          IN IF c = <<>>
             THEN p \in DOMAIN extension_data
                     => e \notin DOMAIN extension_data[p]
             ELSE /\ p \in DOMAIN extension_data
                  /\ e \in DOMAIN extension_data[p]
                  /\ extension_data[p][e] = c

IndexOnlyGrows ==
    \A p \in DOMAIN extension_data :
        /\ p \in DOMAIN extension_data'
        /\ \A e \in DOMAIN extension_data[p] :
              /\ e \in DOMAIN extension_data'[p]
              /\ IsPrefix(extension_data[p][e], extension_data'[p][e])

C16_IndexAppendOnly == []IndexIsConsumed /\ [][IndexOnlyGrows]_vars

\* page 1 fails once and then brings two records of acme/foo and one
\* without versions, page 2 brings acme/foo again
C16_Witness ==
    /\ Len(log) = 3
    /\ IsCircuitBreaker(log[1])
    /\ IsNonEmptyPage(log[2]) /\ IsNonEmptyPage(log[3])
    /\ DOMAIN extension_data = {acme}
    /\ DOMAIN extension_data[acme] = {foo}
    /\ extension_data[acme][foo] =
          <<v1_5_0, v1_0_0, v1_0_0, v2_0_0, v1_5_0>>

(* C17: download-index writes the index file once, and only at the end of
   the data: while pages are requested, and after an exception has left
   the command, nothing was written and there is no file; when the crawl
   is done json.dump was called exactly once, after a page without
   results field or with an empty extension list, with the whole index. *)
C17_WrittenOnceAtEnd ==
    cmd = "download-index" =>
        /\ pc \in {"run", "raised"} => writes = 0 /\ index_file = NoFile
        /\ pc = "raised" => error # "none"
        /\ pc = "done" =>
              /\ writes = 1
              /\ IsEndOfData(log[Len(log)])
              /\ \A i \in 1..(Len(log) - 1) : ~IsEndOfData(log[i])
              /\ index_file = File(json_dump(extension_data))

\* a crawl of two pages, with a retry, has written its index
C17_Witness ==
    /\ cmd = "download-index" /\ pc = "done"
    /\ writes = 1
    /\ Succeeded(Len(log)) = 2
    /\ \E i \in DOMAIN log : IsCircuitBreaker(log[i])
    /\ index_file.text # <<>>

(* C18: a crawl whose requests all succeed in the end, and that is served
   a page without results field or with an empty extension list, ends
   with the index file written; and it goes on to the next page for as
   long as the pages bring extensions.  A crawl is in the end either
   written, or broken by a response that is no success and no retryable
   failure (an exception of s.post, an error without the circuit-breaker
   typeKey, an empty results array). *)
CrawlWritten ==
    /\ pc = "done"
    /\ writes = 1
    /\ index_file = File(json_dump(extension_data))

CrawlBroken ==
    /\ pc = "raised"
    /\ log # <<>>
    /\ LET last == log[Len(log)]
       IN \/ IsTransportFailure(last)
          \/ IsOtherError(last)
          \/ IsOk(last) /\ ~IsNonEmptyPage(last) /\ ~IsEndOfData(last)

GoesOnAfterData ==
    (cmd = "download-index" /\ log # <<>> /\ IsNonEmptyPage(log[Len(log)]))
        => /\ Crawling
           /\ pageNumber = log[Len(log)].page + 1

C18_CrawlTerminates ==
    /\ []GoesOnAfterData
    /\ Crawling ~> (CrawlWritten \/ CrawlBroken)

\* every page the endpoint had was served, every failure it had was made,
\* and the index is written
C18_Witness ==
    /\ cmd = "download-index" /\ CrawlWritten
    /\ Succeeded(Len(log)) = MaxPages
    /\ Cardinality({i \in DOMAIN log : IsCircuitBreaker(log[i])})
          = MaxFailures

(* C19: for one index file print-download-links prints the URLs that
   mirror-extensions fetches, each as often: one for every entry of every
   version list, a version that stands twice in a list twice.  What
   print-download-links has printed is, up to order, what the loops of
   mirror-extensions go through for the index it loaded, and what
   mirror-extensions has fetched is, up to order, what the loops of
   print-download-links write for its index file. *)
Count(seq, u) == Cardinality({i \in DOMAIN seq : seq[i] = u})

SameBag(a, b) ==
    /\ Len(a) = Len(b)
    /\ \A i \in DOMAIN a : Count(a, a[i]) = Count(b, a[i])

MirrorUrls(ix) ==
    LET ts == Targets(ix)
    IN [i \in DOMAIN ts |->
           get_vspackage_path(ts[i].publisher_name, ts[i].extension_name,
                              ts[i].version)]

FetchedUrls == [i \in DOMAIN fetched |-> fetched[i].download_path]

C19_SameUrls ==
    /\ (Printing /\ pc = "done") =>
          /\ SameBag(stdout, MirrorUrls(index))
          /\ Len(stdout) = Entries(index, DOMAIN index)
    /\ (Mirroring /\ pc = "done") =>
          /\ SameBag(FetchedUrls, Lines(index_file.text))
          /\ Len(fetched) = Entries(index, DOMAIN index)

\* four lines printed, one URL twice, in another order than
\* mirror-extensions fetches them
C19_Witness ==
    /\ Printing /\ pc = "done"
    /\ Len(stdout) = 4
    /\ \E i, j \in DOMAIN stdout : i # j /\ stdout[i] = stdout[j]
    /\ stdout # MirrorUrls(index)

(* C20: an r.ok response whose results array is empty is no end of the
   data: result_data["results"][0] raises IndexError, which leaves
   download-index as the last thing it did, and no index is written.  A
   crawl that is done has ended on a page without results field or on an
   empty extension list of the first result group. *)
IsEmptyResults(e) ==
    /\ IsOk(e)
    /\ "results" \in DOMAIN e.resp.json
    /\ e.resp.json.results = <<>>

C20_EmptyResultsRaise ==
    cmd = "download-index" =>
        /\ \A i \in DOMAIN log :
              IsEmptyResults(log[i]) =>
                 /\ i = Len(log)
                 /\ pc = "raised"
                 /\ error = "IndexError"
                 /\ writes = 0
                 /\ index_file = NoFile
        /\ pc = "done" =>
              LET last == log[Len(log)].resp.json
              IN \/ "results" \notin DOMAIN last
                 \/ /\ Len(last.results) >= 1
                    /\ last.results[1].extensions = <<>>

\* page 2 comes back with "results": [] after page 1 brought data
C20_Witness ==
    /\ cmd = "download-index" /\ pc = "raised"
    /\ Len(log) = 2
    /\ IsNonEmptyPage(log[1])
    /\ IsEmptyResults(log[2])
    /\ extension_data # EmptyDict

====
